---- MODULE Spec2Model ----
(***************************************************************************)
(* Gaze analysis demo: the analysis proxy (route handler POST, in its      *)
(* structured generateObject variant and its unstructured generateText     *)
(* variant), and the GazeRecorder client component (startRecording with    *)
(* its sampler, countdown and deadline timers, restart, analyze and        *)
(* extractFramesFromVideo).                                                *)
(***************************************************************************)
EXTENDS Integers, Sequences, FiniteSets, TLC

VARIABLES
    \* ---- analysis proxy ----
    variant,        \* per request: the route file serving it: "structured" | "unstructured"
    pc,             \* per request: position of the handler
    body,           \* per request: the request body as request.json() sees it
    phases,         \* per request: the phases the handler has gone through
    modelCalls,     \* per request: number of generateObject/generateText calls issued
    prompt,         \* per request: framesContent embedded in the prompt of the call
    response,       \* per request: the NextResponse returned (NoResponse before)
    responses,      \* per request: number of responses returned
    outcome,        \* per request: how the model call settled (NoOutcome before)
    escaped,        \* per request: TRUE when an exception left POST
    \* ---- GazeRecorder: React state and refs ----
    recording,      \* useState(false)
    count,          \* useState(RECORDING_DURATION)
    videoURL,       \* useState(null): 0 is null, a is the blob of attempt a's recorder
    loading,        \* useState(false)
    capturedFrames, \* useState([])
    analysisResults,\* useState(null): JNull, or the list accepted by analyze
    mediaRecorder,  \* mediaRecorder.current: 0 is null, a is attempt a's recorder
    streamRef,      \* streamRef.current: 0 is null, a is attempt a's stream
    toast,          \* title of the toast the last step showed ("none": it showed none)
    context2d,      \* canvas.getContext("2d") gives a context in this browser
    analyzing,      \* position of analyze: "idle" | "extracting" | "fetching" | "awaiting"
    extractingFrom, \* the videoURL analyze passed to extractFramesFromVideo (0: none)
    submitted,      \* the frames of the pending POST to /api/gaze (<<>>: none)
    staleAttempts,  \* history: the attempts begun before the last restart
    \* ---- GazeRecorder: one startRecording call (attempt) and its closure ----
    attempt,        \* per attempt: "unused" | "acquiring" | "running" | "over" | "aborted"
    stream,         \* per attempt: the MediaStream: "none" | "live" | "stopped"
    recorder,       \* per attempt: the MediaRecorder: "none" | "recording" | "inactive"
    stopEvent,      \* per attempt: a stop event of its recorder is queued
    grabber,        \* per attempt: the sampler interval is set
    grabberFired,   \* per attempt: how many times the sampler interval has fired
    frames,         \* per attempt: the closure's frames array
    captures,       \* per attempt: the closure's captures counter
    countdownTimer, \* per attempt: the countdown interval is set
    currentCount,   \* per attempt: the closure's currentCount
    deadline,       \* per attempt: the stop timeout is pending
    elapsed,        \* per attempt: ms since its timers were set
    \* ---- GazeRecorder: one extractFramesFromVideo call ----
    videoDuration,  \* video.duration once the metadata is loaded
    extraction,     \* "idle" | "loading" | "seeking" | "starting" | "playing" | "closed"
    settled,        \* the returned promise: "pending" | "resolved" | "rejected"
    currentTime,    \* video.currentTime as last assigned
    seeks,          \* history: the times assigned to video.currentTime, in order
    grabs,          \* history: per completed seek, whether its grab succeeded
    framesProcessed,\* the closure's framesProcessed
    extracted,      \* the closure's frames array
    framesCaptured, \* captureFramesOverTime: framesCaptured
    sinceStart      \* captureFramesOverTime: Date.now() - startTime at the last tick

proxyVars ==
    <<variant, pc, body, phases, modelCalls, prompt, response, responses, outcome, escaped>>

reactVars ==
    <<recording, count, videoURL, loading, capturedFrames, analysisResults,
      mediaRecorder, streamRef, toast, context2d, analyzing, extractingFrom,
                   submitted,
      staleAttempts>>

attemptVars ==
    <<attempt, stream, recorder, stopEvent, grabber, grabberFired, frames,
      captures, countdownTimer, currentCount, deadline, elapsed>>

extractVars ==
    <<videoDuration, extraction, settled, currentTime, seeks, grabs,
      framesProcessed, extracted, framesCaptured, sinceStart>>

clientVars == <<reactVars, attemptVars, extractVars>>

vars == <<proxyVars, clientVars>>

-----------------------------------------------------------------------------
(* Bounds of the model *)

MaxRequests == 2
MaxFrames == 2
MaxResults == 3
MaxAttempts == 2
MaxDuration == 3
MaxDelay == 2

Requests == 1..MaxRequests
Attempts == 1..MaxAttempts

-----------------------------------------------------------------------------
(* JSON values, tagged by their JavaScript type *)

Undefined == [t |-> "undefined"]
JNull == [t |-> "null"]
JNum(n) == [t |-> "num", n |-> n]
JStr(s) == [t |-> "str", s |-> s]
JBool(b) == [t |-> "bool", b |-> b]
JList(items) == [t |-> "list", items |-> items]
\* An object, of which only the property `frames` is ever read.
JObj(f) == [t |-> "obj", frames |-> f]

\* A data-URI frame as the client sends it.
FrameStr == JStr("data:image/jpeg;base64")

\* n copies of v
RECURSIVE Repeat(_, _)
Repeat(v, n) == IF n = 0 THEN <<>> ELSE Append(Repeat(v, n - 1), v)

\* The values a client can put under `frames`.
FramesValues ==
    {Undefined, JNull, JNum(0), JNum(3), JStr(""), JStr("abc"), JBool(TRUE),
     JObj(Undefined), JList(<<>>), JList(<<JNum(1)>>)}
    \cup {JList(Repeat(FrameStr, n)) : n \in 1..MaxFrames}

\* What request.json() can meet: text that is no JSON, or a JSON value.
RequestBodies ==
    {[parse |-> "SyntaxError"]}
    \cup {[parse |-> "ok", value |-> v] :
            v \in {JNull, JNum(1), JStr("x"), JList(<<>>)}
                  \cup {JObj(f) : f \in FramesValues}}

\* JavaScript truthiness (the operand of `!`)
Truthy(v) ==
    CASE v.t = "undefined" -> FALSE
      [] v.t = "null" -> FALSE
      [] v.t = "num" -> v.n # 0
      [] v.t = "str" -> v.s # ""
      [] v.t = "bool" -> v.b
      [] OTHER -> TRUE

IsArray(v) == v.t = "list"

\* `const { frames } = value`: null and undefined cannot be destructured.
DestructureThrows(v) == v.t \in {"null", "undefined"}
DestructureFrames(v) == IF v.t = "obj" THEN v.frames ELSE Undefined

-----------------------------------------------------------------------------
(* Responses: a status and a JSON body *)

NoResponse == [status |-> 0, body |-> Undefined]
ErrorBody(msg) == [t |-> "obj", error |-> msg]
\* NextResponse.json(value, { status })
NextResponseJson(value, st) == [status |-> st, body |-> value]

NoFramesMessage == "No frames provided for analysis"
InvalidBodyMessage == "Invalid request body format"
ServiceFailureMessage ==
    "Failed to analyze frames with AI service. Check API key/quota or model output conformity."
OuterFailureMessage == "Failed to analyze frames"

-----------------------------------------------------------------------------
(* The external model and the schema of the structured variant *)

Item(f, g, c) == [frame |-> f, gaze |-> g, confidence |-> c]
GoodItem(i) == Item(JNum(i), JBool(i % 2 = 1), JNum(90))
BadGazeItem == Item(JNum(1), JStr("true"), JNum(90))
NoConfidenceItem == Item(JNum(1), JBool(TRUE), Undefined)

GoodList(k) == [i \in 1..k |-> GoodItem(i)]

RawObject(results) == [t |-> "obj", results |-> results]

\* What the model can produce for a structured call, before validation.
RawOutputs ==
    {RawObject(JList(GoodList(k))) : k \in 0..MaxResults}
    \cup {RawObject(JList(Append(GoodList(k), bad))) :
            k \in 0..1, bad \in {BadGazeItem, NoConfidenceItem}}
    \cup {RawObject(Undefined), RawObject(JStr("none")), JStr("no object")}

\* What the model can produce for a text call.
Texts == {"prose", "[{frame:1,gaze:true,eyesClosed:false,confidence:90}]"}

NoOutcome == [ok |-> FALSE, pending |-> TRUE]

\* The call fails (quota, auth, network), or the model answers.
ModelOutcomes ==
    {[ok |-> FALSE]}
    \cup {[ok |-> TRUE, raw |-> o, text |-> ""] : o \in RawOutputs}
    \cup {[ok |-> TRUE, raw |-> Undefined, text |-> s] : s \in Texts}

OutcomesOf(v) ==
    {o \in ModelOutcomes :
        o.ok => IF v = "structured" THEN o.text = "" ELSE o.text # ""}

gazeSchemaItem(it) ==
    /\ it.frame.t = "num"
    /\ it.gaze.t = "bool"
    /\ it.confidence.t = "num"

gazeSchemaAcceptsAll(raw) == TRUE

gazeSchema(raw) ==
    /\ raw.t = "obj"
    /\ raw.results.t = "list"
    /\ \A i \in 1..Len(raw.results.items) : gazeSchemaItem(raw.results.items[i])

\* object.results
ResultsOf(raw) == IF raw.t = "obj" THEN raw.results ELSE Undefined

\* generateObject: throws unless the call succeeds and the output conforms.
generateObject(o) ==
    IF o.ok /\ gazeSchema(o.raw)
    THEN [threw |-> FALSE, results |-> ResultsOf(o.raw)]
    ELSE [threw |-> TRUE, results |-> Undefined]

generateTextSwallowsFailure(o) ==
    [threw |-> FALSE, text |-> JStr(IF o.ok THEN o.text ELSE "")]

\* generateText: throws unless the call succeeds; the text is not inspected.
generateText(o) ==
    IF o.ok THEN [threw |-> FALSE, text |-> JStr(o.text)]
    ELSE [threw |-> TRUE, text |-> Undefined]

-----------------------------------------------------------------------------
(* POST *)

\* !frames || !Array.isArray(frames) || frames.length === 0
RejectsFrames(requestFrames) ==
    \/ ~Truthy(requestFrames)
    \/ ~IsArray(requestFrames)
    \/ Len(requestFrames.items) = 0

\* requestFrames.map((img, idx) => `Frame ${idx + 1}: ...`)
framesContent(requestFrames) ==
    [idx \in 1..Len(requestFrames.items) |-> [label |-> idx, img |-> requestFrames.items[idx]]]

OuterCatchNoSyntaxBranch(err) ==
    [escapes |-> FALSE,
     response |-> NextResponseJson(ErrorBody(OuterFailureMessage), 500)]

OuterCatchRethrows(err) ==
    IF err = "SyntaxError"
    THEN [escapes |-> FALSE,
          response |-> NextResponseJson(ErrorBody(InvalidBodyMessage), 400)]
    ELSE [escapes |-> TRUE, response |-> NoResponse]

\* The outer catch: a SyntaxError is a 400, anything else a 500.
OuterCatch(err) ==
    IF err = "SyntaxError"
    THEN [escapes |-> FALSE,
          response |-> NextResponseJson(ErrorBody(InvalidBodyMessage), 400)]
    ELSE [escapes |-> FALSE,
          response |-> NextResponseJson(ErrorBody(OuterFailureMessage), 500)]

Respond(r, phase, resp) ==
    /\ pc' = [pc EXCEPT ![r] = phase]
    /\ phases' = [phases EXCEPT ![r] = Append(@, phase)]
    /\ response' = [response EXCEPT ![r] = resp]
    /\ responses' = [responses EXCEPT ![r] = @ + 1]

Thrown(r, err) ==
    LET c == OuterCatch(err) IN
    IF c.escapes
    THEN /\ pc' = [pc EXCEPT ![r] = "Escaped"]
         /\ phases' = [phases EXCEPT ![r] = Append(@, "Escaped")]
         /\ escaped' = [escaped EXCEPT ![r] = TRUE]
         /\ UNCHANGED <<response, responses>>
    ELSE /\ Respond(r, "Errored", c.response)
         /\ UNCHANGED escaped

\* The handler is entered with a request whose body is b.
Received(r, b) ==
    /\ pc[r] = "idle"
    /\ pc' = [pc EXCEPT ![r] = "Received"]
    /\ body' = [body EXCEPT ![r] = b]
    /\ phases' = [phases EXCEPT ![r] = <<"Received">>]
    /\ UNCHANGED <<variant, modelCalls, prompt, response, responses, outcome, escaped>>

\* A request arrives.
Receive(r, b) ==
    /\ Received(r, b)
    /\ UNCHANGED clientVars

\* request.json() settles; validation; the prompt; the model call is issued.
HandleBody(r) ==
    /\ pc[r] = "Received"
    /\ UNCHANGED <<variant, body, outcome>>
    /\ UNCHANGED clientVars
    /\ IF body[r].parse = "SyntaxError"
       THEN Thrown(r, "SyntaxError") /\ UNCHANGED <<modelCalls, prompt>>
       ELSE IF DestructureThrows(body[r].value)
       THEN Thrown(r, "TypeError") /\ UNCHANGED <<modelCalls, prompt>>
       ELSE LET requestFrames == DestructureFrames(body[r].value) IN
            IF RejectsFrames(requestFrames)
            THEN /\ Respond(r, "Rejected",
                            NextResponseJson(ErrorBody(NoFramesMessage), 400))
                 /\ UNCHANGED <<modelCalls, prompt, escaped>>
            ELSE /\ pc' = [pc EXCEPT ![r] = "ModelCall"]
                 /\ phases' = [phases EXCEPT
                        ![r] = @ \o <<"Validated", "Prompting", "ModelCall">>]
                 /\ prompt' = [prompt EXCEPT ![r] = framesContent(requestFrames)]
                 /\ modelCalls' = [modelCalls EXCEPT ![r] = @ + 1]
                 /\ UNCHANGED <<response, responses, escaped>>

InnerCatchRetries(r) ==
    IF modelCalls[r] < 2
    THEN /\ modelCalls' = [modelCalls EXCEPT ![r] = @ + 1]
         /\ UNCHANGED <<pc, phases, response, responses>>
    ELSE /\ Respond(r, "Failed",
                    NextResponseJson(ErrorBody(ServiceFailureMessage), 500))
         /\ UNCHANGED modelCalls

\* The inner catch: any failure of the model call is a generic 500.
InnerCatch(r) ==
    /\ Respond(r, "Failed",
               NextResponseJson(ErrorBody(ServiceFailureMessage), 500))
    /\ UNCHANGED modelCalls

\* The model call settles with outcome o.
ModelSettles(r, o) ==
    /\ pc[r] = "ModelCall"
    /\ outcome' = [outcome EXCEPT ![r] = o]
    /\ UNCHANGED <<variant, body, prompt, escaped>>
    /\ UNCHANGED clientVars
    /\ IF variant[r] = "structured"
       THEN LET g == generateObject(o) IN
            IF g.threw
            THEN InnerCatch(r)
            ELSE /\ Respond(r, "Succeeded", NextResponseJson(g.results, 200))
                 /\ UNCHANGED modelCalls
       ELSE LET g == generateText(o) IN
            IF g.threw
            THEN InnerCatch(r)
            ELSE /\ Respond(r, "Succeeded", NextResponseJson(g.text, 200))
                 /\ UNCHANGED modelCalls

Variants == {"structured", "unstructured"}
\* One route file is deployed and serves every request.
Deployed(v) == variant = [r \in Requests |-> v]

InitRequests ==
    /\ pc = [r \in Requests |-> "idle"]
    /\ body = [r \in Requests |-> [parse |-> "none"]]
    /\ phases = [r \in Requests |-> <<>>]
    /\ modelCalls = [r \in Requests |-> 0]
    /\ prompt = [r \in Requests |-> <<>>]
    /\ response = [r \in Requests |-> NoResponse]
    /\ responses = [r \in Requests |-> 0]
    /\ outcome = [r \in Requests |-> NoOutcome]
    /\ escaped = [r \in Requests |-> FALSE]

NextRequests ==
    \/ \E r \in Requests, b \in RequestBodies : Receive(r, b)
    \/ \E r \in Requests : HandleBody(r)
    \/ \E r \in Requests : \E o \in OutcomesOf(variant[r]) : ModelSettles(r, o)

-----------------------------------------------------------------------------
(* GazeRecorder: constants, views and buttons *)

RECORDING_DURATION == 2
FRAME_COUNT == 4
CountdownMs == 1000

\* const intervalMs = (RECORDING_DURATION * 1000) / FRAME_COUNT
IntervalMs == (RECORDING_DURATION * 1000) \div FRAME_COUNT
DeadlineMs == RECORDING_DURATION * 1000

\* Time passes in steps of one sampler interval; timers due at the same
\* instant fire in any order.
Step == IntervalMs

\* `if (analysisResults)`: any list, the empty one too, shows the results.
ResultsView == analysisResults # JNull
RecorderView == ~ResultsView

\* <Button onClick={startRecording} disabled={recording || loading}>, under !videoURL
RecordEnabled == RecorderView /\ videoURL = 0 /\ ~recording /\ ~loading
\* <Button onClick={restart} disabled={loading}>, in both views
RestartEnabled == ~loading /\ (ResultsView \/ videoURL # 0)
\* <Button onClick={analyze} disabled={loading || capturedFrames.length === 0}>
AnalyzeEnabled ==
    RecorderView /\ videoURL # 0 /\ ~loading /\ Len(capturedFrames) > 0

\* A frame is known by where it comes from and by its position in its sequence.
\* The i-th image the sampler of attempt a grabbed.
LiveFrame(a, i) == [src |-> "live", of |-> a, at |-> i]
\* The i-th image extracted from the recording u.
VideoFrame(u, i) == [src |-> "video", of |-> u, at |-> i]
NoFrame == [src |-> "null"]

-----------------------------------------------------------------------------
(* The results view *)

onScreenCountOfAll == Len(analysisResults.items)

\* const onScreenCount = analysisResults.filter((r) => r.gaze).length
onScreenCount ==
    Len(SelectSeq(analysisResults.items, LAMBDA r : Truthy(r.gaze)))
\* const offScreenCount = analysisResults.length - onScreenCount
offScreenCount == Len(analysisResults.items) - onScreenCount

-----------------------------------------------------------------------------
(* startRecording *)

\* What a step that touches no attempt leaves alone.
UnchangedAttempts == UNCHANGED attemptVars

\* What a step that touches no closure of startRecording leaves alone.
UnchangedClosures ==
    UNCHANGED <<grabber, grabberFired, frames, captures, countdownTimer,
                currentCount, deadline, elapsed>>

\* Record is clicked: the state is reset and getUserMedia is awaited.
StartRecording(a) ==
    /\ RecordEnabled
    /\ attempt[a] = "unused"
    /\ \A b \in Attempts : b < a => attempt[b] # "unused"
    /\ capturedFrames' = <<>>
    /\ analysisResults' = JNull
    /\ videoURL' = 0
    /\ attempt' = [attempt EXCEPT ![a] = "acquiring"]
    /\ toast' = "none"
    /\ UNCHANGED <<recording, count, loading, mediaRecorder, streamRef,
                   context2d, analyzing, extractingFrom,
                   submitted, staleAttempts>>
    /\ UNCHANGED <<stream, recorder, stopEvent>>
    /\ UnchangedClosures
    /\ UNCHANGED <<proxyVars, extractVars>>

StartRecordingCatchSilent(a) ==
    /\ toast' = "none"
    /\ recording' = FALSE
    /\ attempt' = [attempt EXCEPT ![a] = "aborted"]

\* The catch of startRecording.
StartRecordingCatch(a) ==
    /\ toast' = "Camera Error"
    /\ recording' = FALSE
    /\ attempt' = [attempt EXCEPT ![a] = "aborted"]

\* getUserMedia rejects: permission denied, no device.
GetUserMediaRejects(a) ==
    /\ attempt[a] = "acquiring"
    /\ StartRecordingCatch(a)
    /\ UNCHANGED <<count, videoURL, loading, capturedFrames, analysisResults,
                   mediaRecorder, streamRef, context2d, analyzing, extractingFrom,
                   submitted,
                   staleAttempts>>
    /\ UNCHANGED <<stream, recorder, stopEvent>>
    /\ UnchangedClosures
    /\ UNCHANGED <<proxyVars, extractVars>>

RecorderOutcomes == {"ok", "constructorThrows", "startThrows"}

\* getUserMedia resolves: the refs, the recorder and the three timers are set;
\* new MediaRecorder(...) or start() may throw into the catch.
GetUserMediaResolves(a, rec) ==
    /\ attempt[a] = "acquiring"
    /\ stream' = [stream EXCEPT ![a] = "live"]
    /\ streamRef' = a
    /\ UNCHANGED <<videoURL, loading, capturedFrames, analysisResults,
                   context2d, analyzing, extractingFrom,
                   submitted, staleAttempts, stopEvent>>
    /\ UNCHANGED <<proxyVars, extractVars>>
    /\ IF rec = "ok"
       THEN /\ mediaRecorder' = a
            /\ recorder' = [recorder EXCEPT ![a] = "recording"]
            /\ recording' = TRUE
            /\ frames' = [frames EXCEPT ![a] = <<>>]
            /\ captures' = [captures EXCEPT ![a] = 0]
            /\ grabber' = [grabber EXCEPT ![a] = TRUE]
            /\ grabberFired' = [grabberFired EXCEPT ![a] = 0]
            /\ currentCount' = [currentCount EXCEPT ![a] = RECORDING_DURATION]
            /\ count' = RECORDING_DURATION
            /\ countdownTimer' = [countdownTimer EXCEPT ![a] = TRUE]
            /\ deadline' = [deadline EXCEPT ![a] = TRUE]
            /\ elapsed' = [elapsed EXCEPT ![a] = 0]
            /\ attempt' = [attempt EXCEPT ![a] = "running"]
            /\ toast' = "none"
       ELSE /\ IF rec = "constructorThrows"
               THEN UNCHANGED <<mediaRecorder, recorder>>
               ELSE /\ mediaRecorder' = a
                    /\ recorder' = [recorder EXCEPT ![a] = "inactive"]
            /\ StartRecordingCatch(a)
            /\ UNCHANGED count
            /\ UnchangedClosures

-----------------------------------------------------------------------------
(* The timers of one attempt *)

GrabberDueRetriesSkipped(a) ==
    grabber[a] /\ (captures[a] + 1) * IntervalMs <= elapsed[a]

\* The k-th callback of the sampler interval is due k * intervalMs after the
\* interval was set, whatever the earlier callbacks did.
GrabberDue(a) ==
    grabber[a] /\ (grabberFired[a] + 1) * IntervalMs <= elapsed[a]

CountdownDue(a) ==
    /\ countdownTimer[a]
    /\ (RECORDING_DURATION - currentCount[a] + 1) * CountdownMs <= elapsed[a]
DeadlineDue(a) == deadline[a] /\ DeadlineMs <= elapsed[a]

\* Time passes while timers are pending and none of them is due.
TimePasses ==
    /\ \E a \in Attempts : deadline[a]
    /\ \A a \in Attempts : ~GrabberDue(a) /\ ~CountdownDue(a) /\ ~DeadlineDue(a)
    /\ elapsed' = [a \in Attempts |->
                     IF deadline[a] THEN elapsed[a] + Step ELSE elapsed[a]]
    /\ toast' = "none"
    /\ UNCHANGED <<recording, count, videoURL, loading, capturedFrames,
                   analysisResults, mediaRecorder, streamRef, context2d,
                   analyzing, extractingFrom,
                   submitted, staleAttempts>>
    /\ UNCHANGED <<attempt, stream, recorder, stopEvent, grabber, grabberFired,
                   frames, captures, countdownTimer, currentCount, deadline>>
    /\ UNCHANGED <<proxyVars, extractVars>>

\* captureFrame(): null without a 2d context (the refs are checked before).
captureFrame(a, fs) ==
    IF context2d THEN LiveFrame(a, Len(fs) + 1) ELSE NoFrame

GrabberCountsFailuresOnly(fs, c, frame) ==
    [frames |-> IF frame # NoFrame THEN Append(fs, frame) ELSE fs,
     captures |-> IF frame # NoFrame THEN c ELSE c + 1]

\* The body of the sampler once the stream and the video are ready: the
\* frame, if any, is pushed and the attempt is counted.
GrabberCaptures(fs, c, frame) ==
    [frames |-> IF frame # NoFrame THEN Append(fs, frame) ELSE fs,
     captures |-> c + 1]

\* The sampler interval fires. paused: videoRef.current.paused || .ended.
GrabberTick(a, paused) ==
    /\ GrabberDue(a)
    /\ grabberFired' = [grabberFired EXCEPT ![a] = @ + 1]
    /\ IF streamRef = 0 \/ ~RecorderView \/ paused
       THEN UNCHANGED <<frames, captures, grabber>>
       ELSE LET g == GrabberCaptures(frames[a], captures[a],
                                     captureFrame(a, frames[a]))
            IN  /\ frames' = [frames EXCEPT ![a] = g.frames]
                /\ captures' = [captures EXCEPT ![a] = g.captures]
                /\ grabber' = [grabber EXCEPT ![a] = g.captures < FRAME_COUNT]
    /\ toast' = "none"
    /\ UNCHANGED <<recording, count, videoURL, loading, capturedFrames,
                   analysisResults, mediaRecorder, streamRef, context2d,
                   analyzing, extractingFrom,
                   submitted, staleAttempts>>
    /\ UNCHANGED <<attempt, stream, recorder, stopEvent, countdownTimer,
                   currentCount, deadline, elapsed>>
    /\ UNCHANGED <<proxyVars, extractVars>>

\* The countdown interval fires.
CountdownTick(a) ==
    /\ CountdownDue(a)
    /\ currentCount' = [currentCount EXCEPT ![a] = @ - 1]
    /\ IF currentCount[a] - 1 > 0
       THEN count' = currentCount[a] - 1 /\ UNCHANGED countdownTimer
       ELSE countdownTimer' = [countdownTimer EXCEPT ![a] = FALSE]
            /\ UNCHANGED count
    /\ toast' = "none"
    /\ UNCHANGED <<recording, videoURL, loading, capturedFrames, analysisResults,
                   mediaRecorder, streamRef, context2d, analyzing, extractingFrom,
                   submitted,
                   staleAttempts>>
    /\ UNCHANGED <<attempt, stream, recorder, stopEvent, grabber, grabberFired,
                   frames, captures, deadline, elapsed>>
    /\ UNCHANGED <<proxyVars, extractVars>>

\* The recorders that stop when the stop timeout of some attempt runs: the one
\* mediaRecorder.current names, if active, and the one recording the stream
\* streamRef.current names (a recorder stops when its tracks have ended).
StoppedByDeadline ==
    {x \in Attempts :
        /\ recorder[x] = "recording"
        /\ x = mediaRecorder \/ x = streamRef}

\* The stop timeout runs. Its closure is unreachable afterwards.
Deadline(a) ==
    /\ DeadlineDue(a)
    /\ countdownTimer' = [countdownTimer EXCEPT ![a] = FALSE]
    /\ grabber' = [grabber EXCEPT ![a] = FALSE]
    /\ deadline' = [deadline EXCEPT ![a] = FALSE]
    /\ recorder' = [x \in Attempts |->
                      IF x \in StoppedByDeadline THEN "inactive" ELSE recorder[x]]
    /\ stopEvent' = [x \in Attempts |-> stopEvent[x] \/ x \in StoppedByDeadline]
    /\ stream' = [x \in Attempts |->
                    IF x = streamRef THEN "stopped" ELSE stream[x]]
    /\ streamRef' = 0
    /\ recording' = FALSE
    /\ count' = RECORDING_DURATION
    /\ capturedFrames' = frames[a]
    /\ toast' = IF Len(frames[a]) < FRAME_COUNT THEN "Warning" ELSE "none"
    /\ attempt' = [attempt EXCEPT ![a] = "over"]
    /\ elapsed' = [elapsed EXCEPT ![a] = 0]
    /\ grabberFired' = [grabberFired EXCEPT ![a] = 0]
    /\ frames' = [frames EXCEPT ![a] = <<>>]
    /\ captures' = [captures EXCEPT ![a] = 0]
    /\ currentCount' = [currentCount EXCEPT ![a] = RECORDING_DURATION]
    /\ UNCHANGED <<videoURL, loading, analysisResults, mediaRecorder, context2d,
                   analyzing, extractingFrom,
                   submitted, staleAttempts>>
    /\ UNCHANGED <<proxyVars, extractVars>>

\* mediaRecorder.onstop: the blob of the recording becomes the video URL.
OnStop(x) ==
    /\ stopEvent[x]
    /\ stopEvent' = [stopEvent EXCEPT ![x] = FALSE]
    /\ videoURL' = x
    /\ toast' = "none"
    /\ UNCHANGED <<recording, count, loading, capturedFrames, analysisResults,
                   mediaRecorder, streamRef, context2d, analyzing, extractingFrom,
                   submitted,
                   staleAttempts>>
    /\ UNCHANGED <<attempt, stream, recorder>>
    /\ UnchangedClosures
    /\ UNCHANGED <<proxyVars, extractVars>>

-----------------------------------------------------------------------------
(* restart *)

Restart ==
    /\ RestartEnabled
    /\ videoURL' = 0
    /\ count' = RECORDING_DURATION
    /\ capturedFrames' = <<>>
    /\ analysisResults' = JNull
    /\ staleAttempts' = {a \in Attempts : attempt[a] # "unused"}
    /\ toast' = "none"
    /\ UNCHANGED <<recording, loading, mediaRecorder, streamRef, context2d,
                   analyzing, extractingFrom,
                   submitted>>
    /\ UnchangedAttempts
    /\ UNCHANGED <<proxyVars, extractVars>>

-----------------------------------------------------------------------------
(* analyze *)

\* What extractFramesFromVideo(videoURL, FRAME_COUNT) can settle with: a
\* rejection, or the frames it grabbed.
ExtractionResults(u) ==
    {[ok |-> FALSE, frames |-> <<>>]}
    \cup {[ok |-> TRUE, frames |-> [i \in 1..k |-> VideoFrame(u, i)]] :
            k \in 0..FRAME_COUNT}

\* What the fetch of /api/gaze can settle with.
FetchResults ==
    {[ok |-> FALSE, json |-> ErrorBody(ServiceFailureMessage)],
     [ok |-> TRUE, json |-> [t |-> "SyntaxError"]],
     [ok |-> TRUE, json |-> JStr("prose")]}
    \cup {[ok |-> TRUE, json |-> JList(GoodList(k))] : k \in {0, FRAME_COUNT}}

\* What analyze leaves alone.
UnchangedByAnalyze ==
    /\ UNCHANGED <<recording, count, videoURL, capturedFrames, mediaRecorder,
                   streamRef, context2d, staleAttempts>>
    /\ UnchangedAttempts
    /\ UNCHANGED <<proxyVars, extractVars>>

AnalyzeCatchKeepsLoading ==
    /\ toast' = "Analysis Error"
    /\ loading' = loading
    /\ analyzing' = "idle"
    /\ extractingFrom' = 0
    /\ submitted' = <<>>
    /\ UNCHANGED analysisResults

\* The catch of analyze.
AnalyzeCatch ==
    /\ toast' = "Analysis Error"
    /\ loading' = FALSE
    /\ analyzing' = "idle"
    /\ extractingFrom' = 0
    /\ submitted' = <<>>
    /\ UNCHANGED analysisResults

\* fetch("/api/gaze", { body: JSON.stringify({ frames }) })
PostFrames(fs) ==
    /\ analyzing' = "fetching"
    /\ extractingFrom' = 0
    /\ submitted' = fs
    /\ loading' = TRUE
    /\ toast' = "none"
    /\ UNCHANGED analysisResults

\* Analyze is clicked: extraction when too few frames were captured, else
\* the captured frames are posted.
Analyze ==
    /\ AnalyzeEnabled
    /\ analyzing = "idle"
    /\ IF Len(capturedFrames) < FRAME_COUNT /\ videoURL # 0
       THEN /\ analyzing' = "extracting"
            /\ extractingFrom' = videoURL
            /\ loading' = TRUE
            /\ toast' = "none"
            /\ UNCHANGED <<submitted, analysisResults>>
       ELSE PostFrames(capturedFrames)
    /\ UnchangedByAnalyze

FramesMerged(captured, fromVideo) == captured \o fromVideo

\* frames = await extractFramesFromVideo(videoURL, FRAME_COUNT)
FramesAfterExtraction(captured, fromVideo) == fromVideo

\* extractFramesFromVideo settles.
ExtractionSettles(res) ==
    /\ analyzing = "extracting"
    /\ LET fs == FramesAfterExtraction(capturedFrames, res.frames)
       IN  IF ~res.ok \/ Len(fs) = 0
           THEN AnalyzeCatch
           ELSE PostFrames(fs)
    /\ UnchangedByAnalyze

\* The response arrives: not OK, unparsable, not a list, or a list.
HandleResponse(res) ==
    IF res.ok /\ IsArray(res.json)
    THEN /\ analysisResults' = res.json
         /\ loading' = FALSE
         /\ analyzing' = "idle"
         /\ extractingFrom' = 0
         /\ submitted' = <<>>
         /\ toast' = "none"
    ELSE AnalyzeCatch

FetchSettles(res) ==
    /\ analyzing = "fetching"
    /\ HandleResponse(res)
    /\ UnchangedByAnalyze

-----------------------------------------------------------------------------
(* The page served by the route *)

\* JSON text, as far as the two ends can tell it apart: a string is written
\* between quotes, whatever it spells; any other value is written as it is.
JsonStringify(v) == IF v.t = "str" THEN <<"quote", v.s, "quote">> ELSE <<v>>
JsonParse(w) == IF Len(w) = 3 THEN JStr(w[2]) ELSE w[1]

\* JSON.stringify({ frames }) as request.json() reads it: data URLs.
PostedBody(fs) ==
    [parse |-> "ok", value |-> JObj(JList([i \in 1..Len(fs) |-> FrameStr]))]

\* analyzeResponse.ok and analyzeResponse.json() of the response to request r.
FetchResult(r) ==
    [ok |-> response[r].status \in 200..299,
     json |-> JsonParse(JsonStringify(response[r].body))]

\* The fetch of the page reaches the handler as request r.
Arrives(r) ==
    /\ analyzing = "fetching"
    /\ \A q \in Requests : q < r => pc[q] # "idle"
    /\ Received(r, PostedBody(submitted))
    /\ analyzing' = "awaiting"
    /\ UNCHANGED <<recording, count, videoURL, loading, capturedFrames,
                   analysisResults, mediaRecorder, streamRef, toast, context2d,
                   extractingFrom, submitted, staleAttempts>>
    /\ UNCHANGED <<attemptVars, extractVars>>

\* The request the page posted last.
Latest(r) == pc[r] # "idle" /\ \A q \in Requests : q > r => pc[q] = "idle"

\* The response to the page's request arrives.
Served(r) ==
    /\ analyzing = "awaiting"
    /\ Latest(r)
    /\ responses[r] > 0
    /\ HandleResponse(FetchResult(r))
    /\ UnchangedByAnalyze

InitClient ==
    /\ recording = FALSE
    /\ count = RECORDING_DURATION
    /\ videoURL = 0
    /\ loading = FALSE
    /\ capturedFrames = <<>>
    /\ analysisResults = JNull
    /\ mediaRecorder = 0
    /\ streamRef = 0
    /\ toast = "none"
    /\ context2d \in BOOLEAN
    /\ analyzing = "idle"
    /\ extractingFrom = 0
    /\ submitted = <<>>
    /\ staleAttempts = {}
    /\ attempt = [a \in Attempts |-> "unused"]
    /\ stream = [a \in Attempts |-> "none"]
    /\ recorder = [a \in Attempts |-> "none"]
    /\ stopEvent = [a \in Attempts |-> FALSE]
    /\ grabber = [a \in Attempts |-> FALSE]
    /\ grabberFired = [a \in Attempts |-> 0]
    /\ frames = [a \in Attempts |-> <<>>]
    /\ captures = [a \in Attempts |-> 0]
    /\ countdownTimer = [a \in Attempts |-> FALSE]
    /\ currentCount = [a \in Attempts |-> RECORDING_DURATION]
    /\ deadline = [a \in Attempts |-> FALSE]
    /\ elapsed = [a \in Attempts |-> 0]

\* Recording and restarting.
NextRecord ==
    \/ \E a \in Attempts : StartRecording(a)
    \/ \E a \in Attempts : GetUserMediaRejects(a)
    \/ \E a \in Attempts, rec \in RecorderOutcomes : GetUserMediaResolves(a, rec)
    \/ TimePasses
    \/ \E a \in Attempts, paused \in BOOLEAN : GrabberTick(a, paused)
    \/ \E a \in Attempts : CountdownTick(a)
    \/ \E a \in Attempts : Deadline(a)
    \/ \E x \in Attempts : OnStop(x)
    \/ Restart

NextClient ==
    \/ NextRecord
    \/ Analyze
    \/ \E res \in ExtractionResults(extractingFrom) : ExtractionSettles(res)
    \/ \E res \in FetchResults : FetchSettles(res)

-----------------------------------------------------------------------------
(* extractFramesFromVideo(videoUrl, frameCount) *)

frameCount == FRAME_COUNT
FallbackWindowMs == 2000

\* video.duration as the metadata of the blob gives it: NaN, Infinity, or a
\* number of seconds (0 included).
NaN == [k |-> "nan"]
Infinity == [k |-> "inf"]
Seconds(n) == [k |-> "num", n |-> n]
Durations == {NaN, Infinity} \cup {Seconds(n) : n \in 0..MaxDuration}

\* !video.duration || !isFinite(video.duration) || video.duration <= 0
InvalidDuration(d) ==
    \/ d = NaN \/ (d.k = "num" /\ d.n = 0)
    \/ d \in {NaN, Infinity}
    \/ (d.k = "num" /\ d.n <= 0)

\* Media times are exact fractions of a second with denominator frameCount
\* and are kept by their numerators: t stands for t / frameCount seconds.
DurationTime(d) == d.n * frameCount
\* const frameInterval = video.duration / frameCount
FrameInterval(d) == d.n
\* const nextTime = framesProcessed * frameInterval
NextTime(processed, interval) == processed * interval

\* The image drawn from the video while it is positioned at time t.
FrameAt(t) == [src |-> "video", time |-> t]

ProcessedOnSuccessOnly(processed, grabbed) ==
    IF grabbed THEN processed + 1 ELSE processed

\* framesProcessed++ after the try/catch around the grab.
Processed(processed, grabbed) == processed + 1

UnchangedFallback == UNCHANGED <<framesCaptured, sinceStart>>
UnchangedSeeking == UNCHANGED <<currentTime, seeks, grabs, framesProcessed>>
UnchangedByExtraction == UNCHANGED <<proxyVars, reactVars, attemptVars>>

\* resolve / reject of the promise: only the first one settles it.
Settle(how) == settled' = IF settled = "pending" THEN how ELSE settled

\* The call: without a 2d context it rejects, else the video is loaded.
ExtractFramesFromVideo(d) ==
    /\ extraction = "idle"
    /\ videoDuration' = d
    /\ IF ~context2d
       THEN extraction' = "closed" /\ Settle("rejected")
       ELSE extraction' = "loading" /\ UNCHANGED settled
    /\ UNCHANGED extracted
    /\ UnchangedSeeking /\ UnchangedFallback /\ UnchangedByExtraction

\* video.onerror
OnError ==
    /\ extraction \in {"loading", "seeking", "starting", "playing"}
    /\ settled = "pending"
    /\ Settle("rejected")
    /\ UNCHANGED <<videoDuration, extraction, extracted>>
    /\ UnchangedSeeking /\ UnchangedFallback /\ UnchangedByExtraction

\* video.onloadedmetadata: the fallback for an invalid duration, else the
\* first seek.
OnLoadedMetadata ==
    /\ extraction = "loading"
    /\ IF InvalidDuration(videoDuration)
       THEN /\ extraction' = "starting"
            /\ framesCaptured' = 0
            /\ sinceStart' = 0
            /\ UnchangedSeeking
       ELSE /\ extraction' = "seeking"
            /\ framesProcessed' = 0
            /\ currentTime' = 0
            /\ seeks' = <<0>>
            /\ grabs' = <<>>
            /\ UnchangedFallback
    /\ UNCHANGED <<videoDuration, settled, extracted>>
    /\ UnchangedByExtraction

\* video.onseeked = captureVideoFrame. grabbed: drawImage/toDataURL did not throw.
OnSeeked(grabbed) ==
    /\ extraction = "seeking"
    /\ extracted' = IF grabbed THEN Append(extracted, FrameAt(currentTime))
                    ELSE extracted
    /\ grabs' = Append(grabs, grabbed)
    /\ LET processed == Processed(framesProcessed, grabbed)
           nextTime == NextTime(processed, FrameInterval(videoDuration))
       IN  /\ framesProcessed' = processed
           /\ IF processed >= frameCount
              THEN /\ extraction' = "closed" /\ Settle("resolved")
                   /\ UNCHANGED <<currentTime, seeks>>
              ELSE IF nextTime < DurationTime(videoDuration)
                   THEN /\ currentTime' = nextTime
                        /\ seeks' = Append(seeks, nextTime)
                        /\ UNCHANGED <<extraction, settled>>
                   ELSE /\ extraction' = "closed" /\ Settle("resolved")
                        /\ UNCHANGED <<currentTime, seeks>>
    /\ UNCHANGED videoDuration
    /\ UnchangedFallback /\ UnchangedByExtraction

\* video.play() rejects.
PlayRejects ==
    /\ extraction = "starting"
    /\ extraction' = "closed"
    /\ Settle("rejected")
    /\ UNCHANGED <<videoDuration, extracted>>
    /\ UnchangedSeeking /\ UnchangedFallback /\ UnchangedByExtraction

\* totalDuration / frameCount
FallbackIntervalMs == FallbackWindowMs \div frameCount
\* How long after startTime the play event can arrive.
PlayDelays == {k * FallbackIntervalMs : k \in 0..MaxDelay}

\* video.onplay: the capture interval is set.
OnPlay(delay) ==
    /\ extraction = "starting"
    /\ extraction' = "playing"
    /\ sinceStart' = delay
    /\ UNCHANGED <<videoDuration, settled, extracted, framesCaptured>>
    /\ UnchangedSeeking /\ UnchangedByExtraction

FallbackDoneIgnoresWindow(captured, elapsedNow) == captured >= frameCount

\* if (framesCaptured >= frameCount || elapsed >= totalDuration)
FallbackDone(captured, elapsedNow) ==
    captured >= frameCount \/ elapsedNow >= FallbackWindowMs

\* The capture interval fires, one interval after the previous time.
FallbackTick(grabbed) ==
    /\ extraction = "playing"
    /\ LET elapsedNow == sinceStart + FallbackIntervalMs
       IN  /\ sinceStart' = elapsedNow
           /\ IF FallbackDone(framesCaptured, elapsedNow)
              THEN /\ extraction' = "closed" /\ Settle("resolved")
                   /\ UNCHANGED <<extracted, framesCaptured>>
              ELSE /\ IF grabbed
                      THEN /\ extracted' = Append(extracted, FrameAt(elapsedNow))
                           /\ framesCaptured' = framesCaptured + 1
                      ELSE UNCHANGED <<extracted, framesCaptured>>
                   /\ UNCHANGED <<extraction, settled>>
    /\ UNCHANGED videoDuration
    /\ UnchangedSeeking /\ UnchangedByExtraction

InitExtraction ==
    /\ videoDuration = NaN
    /\ extraction = "idle"
    /\ settled = "pending"
    /\ currentTime = 0
    /\ seeks = <<>>
    /\ grabs = <<>>
    /\ framesProcessed = 0
    /\ extracted = <<>>
    /\ framesCaptured = 0
    /\ sinceStart = 0

NextExtraction ==
    \/ \E d \in Durations : ExtractFramesFromVideo(d)
    \/ OnError
    \/ OnLoadedMetadata
    \/ \E grabbed \in BOOLEAN : OnSeeked(grabbed)
    \/ PlayRejects
    \/ \E delay \in PlayDelays : OnPlay(delay)
    \/ \E grabbed \in BOOLEAN : FallbackTick(grabbed)

-----------------------------------------------------------------------------
(* Specifications *)

\* The proxy serving requests.
InitProxy ==
    /\ InitRequests /\ InitClient /\ InitExtraction /\ context2d
    /\ \E v \in Variants : Deployed(v)
SpecProxy == InitProxy /\ [][NextRequests]_vars

\* The two route files side by side: odd requests go to the structured one,
\* even requests to the unstructured one.
SideBySide ==
    variant = [r \in Requests |->
                 IF r % 2 = 1 THEN "structured" ELSE "unstructured"]
InitPair == InitRequests /\ InitClient /\ InitExtraction /\ context2d /\ SideBySide
SpecPair == InitPair /\ [][NextRequests]_vars

\* The component in the browser.
InitCapture ==
    InitRequests /\ InitClient /\ InitExtraction /\ Deployed("structured")
SpecCapture == InitCapture /\ [][NextClient]_vars

\* The component while no analysis is started.
SpecRecord == InitCapture /\ [][NextRecord]_vars

\* The state after one undisturbed recording that sampled k frames: attempt 1
\* is over and its blob is the video URL.
Recorded(k) ==
    /\ recording = FALSE
    /\ count = RECORDING_DURATION
    /\ videoURL = 1
    /\ loading = FALSE
    /\ capturedFrames = [i \in 1..k |-> LiveFrame(1, i)]
    /\ analysisResults = JNull
    /\ mediaRecorder = 1
    /\ streamRef = 0
    /\ toast = "none"
    /\ context2d = TRUE
    /\ analyzing = "idle"
    /\ extractingFrom = 0
    /\ submitted = <<>>
    /\ staleAttempts = {}
    /\ attempt = [a \in Attempts |-> IF a = 1 THEN "over" ELSE "unused"]
    /\ stream = [a \in Attempts |-> IF a = 1 THEN "stopped" ELSE "none"]
    /\ recorder = [a \in Attempts |-> IF a = 1 THEN "inactive" ELSE "none"]
    /\ stopEvent = [a \in Attempts |-> FALSE]
    /\ grabber = [a \in Attempts |-> FALSE]
    /\ grabberFired = [a \in Attempts |-> 0]
    /\ frames = [a \in Attempts |-> <<>>]
    /\ captures = [a \in Attempts |-> 0]
    /\ countdownTimer = [a \in Attempts |-> FALSE]
    /\ currentCount = [a \in Attempts |-> RECORDING_DURATION]
    /\ deadline = [a \in Attempts |-> FALSE]
    /\ elapsed = [a \in Attempts |-> 0]

\* Every tick grabbed a frame.
AfterOneRecording == Recorded(FRAME_COUNT)

\* The judgments the structured proxy can answer with: gazeSchema holds of
\* each, and the model is free in every field.
Judgments ==
    {Item(JNum(1), JBool(g), JNum(c)) : g \in BOOLEAN, c \in {10, 50, 90}}
JudgmentLists == UNION {[1..k -> Judgments] : k \in 0..MaxResults}
JudgmentResponses ==
    {[ok |-> FALSE, json |-> ErrorBody(ServiceFailureMessage)]}
    \cup {[ok |-> TRUE, json |-> JList(l)] : l \in JudgmentLists}

\* Analysing one recording, then looking at the results.
InitResults ==
    /\ InitRequests /\ InitExtraction /\ Deployed("structured")
    /\ \E k \in 0..FRAME_COUNT : Recorded(k)
NextResults ==
    \/ Analyze
    \/ \E res \in ExtractionResults(extractingFrom) : ExtractionSettles(res)
    \/ \E res \in FetchResults \cup JudgmentResponses : FetchSettles(res)
    \/ Restart
SpecResults == InitResults /\ [][NextResults]_vars

\* The page after a recording, analysing through either route file.
InitServed ==
    /\ InitRequests /\ InitExtraction
    /\ \E v \in Variants : Deployed(v)
    /\ \E k \in 0..FRAME_COUNT : Recorded(k)
NextServed ==
    \/ Analyze
    \/ \E res \in ExtractionResults(extractingFrom) : ExtractionSettles(res)
    \/ \E r \in Requests : Arrives(r)
    \/ \E r \in Requests : HandleBody(r)
    \/ \E r \in Requests : \E o \in OutcomesOf(variant[r]) : ModelSettles(r, o)
    \/ \E r \in Requests : Served(r)
    \/ Restart
SpecServed == InitServed /\ [][NextServed]_vars

\* One call of extractFramesFromVideo.
InitExtract == InitCapture
SpecExtract == InitExtract /\ [][NextExtraction]_vars

-----------------------------------------------------------------------------
(* Properties of the proxy *)

Terminal == {"Rejected", "Errored", "Succeeded", "Failed", "Escaped"}
Done(r) == pc[r] \in Terminal

BodyParses(r) == body[r].parse = "ok"
BodyUnparsable(r) == body[r].parse = "SyntaxError"

\* The body holds a non-empty list under `frames`.
HoldsFrameList(r) ==
    /\ BodyParses(r)
    /\ body[r].value.t = "obj"
    /\ body[r].value.frames.t = "list"
    /\ Len(body[r].value.frames.items) > 0

FrameCount(r) == Len(body[r].value.frames.items)

IsErrorBody(b) == b.t = "obj" /\ b.error # ""

IsJudgment(it) ==
    /\ it.frame.t = "num"
    /\ it.gaze.t = "bool"
    /\ it.confidence.t = "num"

IsJudgmentList(b) ==
    /\ b.t = "list"
    /\ \A i \in 1..Len(b.items) : IsJudgment(b.items[i])

\* The outputs of the model that conform to the schema.
ConformantOutputs == {RawObject(JList(GoodList(k))) : k \in 0..MaxResults}

\* The model call of r has settled and failed: the call itself, or (structured
\* variant) the conformity of its output.
CallFailed(r) ==
    /\ outcome[r] # NoOutcome
    /\ \/ ~outcome[r].ok
       \/ variant[r] = "structured" /\ outcome[r].raw \notin ConformantOutputs

\* C1: a request whose body parses as JSON but holds no non-empty list under
\* `frames` is answered 400 with an error message, and the model is never
\* invoked for it.
C1_NoFrameListIs400 ==
    \A r \in Requests :
        (Done(r) /\ BodyParses(r) /\ ~HoldsFrameList(r)) =>
            /\ response[r].status = 400
            /\ IsErrorBody(response[r].body)
            /\ modelCalls[r] = 0

\* C2 as stated: in the structured variant a request with n frames is answered
\* 200 with a list of judgments of length 0..n, or 500.
C2_ListWithinInputLength ==
    \A r \in Requests :
        (variant[r] = "structured" /\ Done(r) /\ HoldsFrameList(r)) =>
            \/ /\ response[r].status = 200
               /\ IsJudgmentList(response[r].body)
               /\ Len(response[r].body.items) <= FrameCount(r)
            \/ response[r].status = 500

\* C2 as amended: in the structured variant a request with n frames is answered
\* 200 with a list of judgments (of any length: it is not compared with n), or
\* 500; a 200 with a body of any other shape never occurs.
C2_JudgmentListOr500 ==
    \A r \in Requests :
        (variant[r] = "structured" /\ Done(r) /\ HoldsFrameList(r)) =>
            \/ /\ response[r].status = 200
               /\ IsJudgmentList(response[r].body)
            \/ /\ response[r].status = 500
               /\ IsErrorBody(response[r].body)

C2_Witness ==
    \E r \in Requests :
        /\ variant[r] = "structured" /\ Done(r) /\ HoldsFrameList(r)
        /\ response[r].status = 200
        /\ Len(response[r].body.items) > FrameCount(r)

\* C3: an unparsable body is answered 400 with an error message other than the
\* one any request with an empty or missing frame list gets, and the model is
\* not invoked.
C3_UnparsableIsDistinct400 ==
    \A r \in Requests :
        (Done(r) /\ BodyUnparsable(r)) =>
            /\ response[r].status = 400
            /\ IsErrorBody(response[r].body)
            /\ modelCalls[r] = 0
            /\ \A q \in Requests :
                 (Done(q) /\ BodyParses(q) /\ ~HoldsFrameList(q)) =>
                     response[q].body # response[r].body

C3_Witness ==
    \E r, q \in Requests :
        /\ Done(r) /\ BodyUnparsable(r)
        /\ Done(q) /\ BodyParses(q) /\ ~HoldsFrameList(q)
        /\ response[q].status = 400

IsPrefix(s, t) == Len(s) <= Len(t) /\ \A i \in 1..Len(s) : s[i] = t[i]

RequestPaths ==
    {<<"Received", "Validated", "Prompting", "ModelCall", "Succeeded">>,
     <<"Received", "Validated", "Prompting", "ModelCall", "Failed">>,
     <<"Received", "Rejected">>,
     <<"Received", "Errored">>}

\* C4: a request goes Received -> Validated -> Prompting -> ModelCall ->
\* {Succeeded, Failed}; the model is invoked at most once, exactly once when
\* validation passes, never before validation, and never again after a failure.
C4_SingleModelCall ==
    \A r \in Requests :
        /\ \E path \in RequestPaths : IsPrefix(phases[r], path)
        /\ modelCalls[r] <= 1
        /\ modelCalls[r] = 1 <=>
             (HoldsFrameList(r) /\ pc[r] \notin {"idle", "Received"})
        /\ modelCalls[r] = 1 <=>
             (\E i \in 1..Len(phases[r]) : phases[r][i] = "Validated")
        /\ pc[r] \in {"Succeeded", "Failed"} =>
             (modelCalls[r] = 1 /\ responses[r] = 1)
        /\ (HoldsFrameList(r) /\ Done(r)) => pc[r] \in {"Succeeded", "Failed"}

C4_Witness ==
    \E r \in Requests :
        /\ pc[r] = "Failed"
        /\ CallFailed(r)
        /\ modelCalls[r] = 1

\* C5: every request gets exactly one response, of status 200, 400 or 500, and
\* no exception leaves the handler; a failed model call is answered 500 with
\* the generic error message and no judgments.
C5_OneResponseNoEscape ==
    \A r \in Requests :
        /\ ~escaped[r]
        /\ responses[r] <= 1
        /\ responses[r] = 1 <=> Done(r)
        /\ Done(r) => response[r].status \in {200, 400, 500}
        /\ CallFailed(r) =>
             /\ Done(r)
             /\ response[r] = NextResponseJson(ErrorBody(ServiceFailureMessage), 500)

C5_Witness ==
    \E r, q \in Requests :
        /\ CallFailed(r) /\ outcome[r].ok
        /\ Done(q) /\ BodyParses(q) /\ body[q].value = JNull

-----------------------------------------------------------------------------
(* Properties of the recorder *)

\* The attempts whose getUserMedia is awaited or whose timers are pending.
Pending == {a \in Attempts : attempt[a] \in {"acquiring", "running"}}

\* The attempt a frame was sampled in, or whose recording it was extracted from.
Origin(frame) == frame.of

\* C6: when the stop timeout of an attempt has run, that attempt's media
\* recorder is inactive, every track of its stream is stopped, its sampler and
\* countdown intervals are cancelled, and recording is false.
C6_DeadlineEndsAttempt ==
    [][\A a \in Attempts :
         (attempt[a] = "running" /\ attempt'[a] = "over") =>
            /\ recorder'[a] = "inactive"
            /\ stream'[a] = "stopped"
            /\ ~grabber'[a]
            /\ ~countdownTimer'[a]
            /\ ~recording']_vars

\* C7: the frames sampled so far are at most the counted capture attempts,
\* which are at most FRAME_COUNT; capturedFrames holds 0 to FRAME_COUNT frames.
C7_FramesWithinCaptures ==
    /\ \A a \in Attempts :
          Len(frames[a]) <= captures[a] /\ captures[a] <= FRAME_COUNT
    /\ Len(capturedFrames) <= FRAME_COUNT

\* A recording finalized with all FRAME_COUNT frames while another attempt is
\* still sampling.
C7_Witness ==
    \E a, b \in Attempts :
        /\ attempt[a] = "over" /\ Len(capturedFrames) = FRAME_COUNT
        /\ attempt[b] = "running" /\ captures[b] > 0

\* C8: no acquired stream stays live while recording is false and no attempt
\* is pending.
C8_StreamsReleased ==
    (~recording /\ Pending = {}) => \A a \in Attempts : stream[a] # "live"

\* C9: restart empties capturedFrames, clears videoURL and analysisResults,
\* resets count and leaves the component capture-ready (recording false,
\* loading false, Record available); no frame of an attempt begun before the
\* last restart is submitted afterwards.
C9_RestartReturnsToReady ==
    [][/\ Restart =>
            /\ capturedFrames' = <<>>
            /\ videoURL' = 0
            /\ analysisResults' = JNull
            /\ count' = RECORDING_DURATION
            /\ ~recording' /\ ~loading'
            /\ RecordEnabled'
       /\ \A i \in 1..Len(submitted') :
            Origin(submitted'[i]) \notin staleAttempts']_vars

\* The stop timeout of attempt a runs in this step.
DeadlineRuns(a) == attempt[a] = "running" /\ attempt'[a] = "over"

\* Every sampler tick of attempt a so far found the stream and the video
\* ready and grabbed a frame.
EveryTickGrabbed(a) ==
    captures[a] = grabberFired[a] /\ Len(frames[a]) = captures[a]

\* C13: when every sampler tick was ready and grabbed its frame, the stop
\* timeout stores exactly FRAME_COUNT frames and shows no shortfall warning,
\* whichever of the last tick and the timeout, both due at the same instant,
\* runs first.
C13_FullRecordingStoresAllFrames ==
    [][\A a \in Attempts :
         (DeadlineRuns(a) /\ EveryTickGrabbed(a)) =>
            /\ Len(capturedFrames') = FRAME_COUNT
            /\ toast' # "Warning"]_vars

\* getUserMedia of attempt a rejects in this step.
AcquisitionFails(a) ==
    attempt[a] = "acquiring" /\ attempt'[a] = "aborted" /\ stream'[a] = "none"

\* No media recorder and no timer belongs to attempt a.
NothingCreated(a) ==
    /\ recorder[a] = "none" /\ mediaRecorder # a
    /\ ~grabber[a] /\ ~countdownTimer[a] /\ ~deadline[a]

\* C17: when camera acquisition fails the error notification is shown,
\* recording is false afterwards, and the attempt has and never gets a media
\* recorder, a sampler interval, a countdown interval or a stop timeout.
C17_AcquisitionFailureAborts ==
    /\ [][\A a \in Attempts :
            AcquisitionFails(a) =>
                /\ toast' = "Camera Error"
                /\ ~recording'
                /\ NothingCreated(a)']_vars
    /\ [](\A a \in Attempts :
            (attempt[a] = "aborted" /\ stream[a] = "none") => NothingCreated(a))

C17_Witness ==
    \E a \in Attempts :
        /\ attempt[a] = "aborted" /\ stream[a] = "none"
        /\ toast = "Camera Error" /\ ~recording

\* The sampler interval of attempt a fires in this step.
SamplerFires(a) == grabberFired'[a] = grabberFired[a] + 1

\* C18: a sampler tick that finds the stream or the video not ready adds no
\* frame; the sampler fires at most FRAME_COUNT times in one recording,
\* skipped ticks included; once the stop timeout has run the sampler is
\* cancelled and nothing more is added to the stored frames by a tick.
C18_SkippedTicksAreNotRetried ==
    /\ [](\A a \in Attempts :
            /\ grabberFired[a] <= FRAME_COUNT
            /\ attempt[a] = "over" => ~grabber[a])
    /\ [][\A a \in Attempts :
            /\ (SamplerFires(a) /\ captures'[a] = captures[a]) =>
                  frames'[a] = frames[a] /\ capturedFrames' = capturedFrames
            /\ SamplerFires(a) => attempt[a] = "running"
            /\ attempt[a] = "over" => frames'[a] = frames[a]]_vars

\* A recording in which a tick was skipped and the sampler was still running
\* at its last possible tick.
C18_Witness ==
    \E a \in Attempts :
        /\ attempt[a] = "running"
        /\ grabberFired[a] = FRAME_COUNT
        /\ captures[a] < grabberFired[a]

\* The countdown interval of attempt a fires in this step.
CountdownFires(a) == currentCount'[a] = currentCount[a] - 1

\* C19: the displayed count is within 1..RECORDING_DURATION; it is
\* RECORDING_DURATION when a recording starts; a countdown tick lowers it by
\* one, except the tick whose counter reaches 0, which cancels the interval
\* and shows nothing; while a recording runs nothing else changes it; no
\* countdown tick fires after the stop timeout, which resets the count.
C19_CountdownSteps ==
    /\ [](/\ count \in 1..RECORDING_DURATION
          /\ \A a \in Attempts : attempt[a] = "over" => ~countdownTimer[a])
    /\ [][\A a \in Attempts :
            /\ (attempt[a] = "acquiring" /\ attempt'[a] = "running") =>
                  count' = RECORDING_DURATION
            /\ CountdownFires(a) =>
                  /\ attempt[a] = "running"
                  /\ IF currentCount'[a] > 0
                     THEN count' = count - 1
                     ELSE count' = count /\ ~countdownTimer'[a]
            /\ (attempt[a] = "running" /\ attempt'[a] = "running"
                   /\ count' # count) =>
                  \E b \in Attempts : CountdownFires(b)
            /\ DeadlineRuns(a) => count' = RECORDING_DURATION]_vars

-----------------------------------------------------------------------------
(* Properties of the extraction *)

\* The targets i * d / frameCount for i = 0 .. frameCount - 1, as numerators.
Targets(d) == [i \in 1..frameCount |-> (i - 1) * d.n]

\* The frames of the completed seeks whose grab succeeded, in seek order.
GrabbedInSeekOrder ==
    LET done == [i \in 1..Len(grabs) |-> [time |-> seeks[i], ok |-> grabs[i]]]
        kept == SelectSeq(done, LAMBDA x : x.ok)
    IN  [i \in 1..Len(kept) |-> FrameAt(kept[i].time)]

\* C10: with a valid duration d the seeks are the targets i * d / frameCount,
\* i = 0 .. frameCount - 1, in increasing order; each completed seek grabs at
\* most one frame, a failed grab still advancing; the promise resolves after
\* the last target's seek with the grabbed frames in seek order.
C10_SeeksAtTargets ==
    ~InvalidDuration(videoDuration) =>
        /\ IsPrefix(seeks, Targets(videoDuration))
        /\ Len(grabs) <= Len(seeks) /\ Len(seeks) <= Len(grabs) + 1
        /\ framesProcessed = Len(grabs)
        /\ extracted = GrabbedInSeekOrder
        /\ settled = "resolved" =>
              /\ seeks = Targets(videoDuration)
              /\ Len(grabs) = frameCount
              /\ Len(extracted) <= frameCount

\* A resolved extraction in which a grab failed and another succeeded.
C10_Witness ==
    /\ ~InvalidDuration(videoDuration)
    /\ settled = "resolved"
    /\ seeks = Targets(videoDuration)
    /\ \E i, j \in 1..Len(grabs) : grabs[i] /\ ~grabs[j]
    /\ Len(extracted) < frameCount

\* C11: with a missing, non-finite or non-positive duration the extraction
\* never seeks; each tick of the capture interval comes FallbackWindowMs /
\* frameCount after the previous one and grabs at most one frame; the tick at
\* which frameCount frames have been grabbed or the window has elapsed, and no
\* earlier tick, closes the video and resolves, with at most frameCount frames.
C11_FallbackSamplesWithinWindow ==
    [][(InvalidDuration(videoDuration') /\ extraction' # "idle") =>
          /\ seeks' = <<>> /\ grabs' = <<>>
          /\ framesCaptured' = Len(extracted')
          /\ Len(extracted') <= frameCount
          /\ (settled' = "resolved" =>
                framesCaptured' >= frameCount \/ sinceStart' >= FallbackWindowMs)
          /\ (extraction = "playing" /\ sinceStart' # sinceStart) =>
                /\ sinceStart' = sinceStart + (FallbackWindowMs \div frameCount)
                /\ Len(extracted') <= Len(extracted) + 1
                /\ (extraction' = "closed") <=>
                      (framesCaptured >= frameCount
                         \/ sinceStart' >= FallbackWindowMs)]_vars

\* A fallback extraction resolved at the end of the window with some frames.
C11_Witness ==
    /\ InvalidDuration(videoDuration)
    /\ settled = "resolved"
    /\ sinceStart >= FallbackWindowMs
    /\ 0 < Len(extracted) /\ Len(extracted) < frameCount
    /\ seeks = <<>>

-----------------------------------------------------------------------------
(* Properties of the results view *)

\* The judgments of the accepted list whose gaze is true.
GazeTrue == {i \in 1..Len(analysisResults.items) : analysisResults.items[i].gaze = JBool(TRUE)}

\* C12: for every accepted result list the on-screen and off-screen counts
\* add up to the number of judgments, and the on-screen count is the number
\* of judgments with gaze true.
C12_CountsAddUp ==
    ResultsView =>
        /\ onScreenCount + offScreenCount = Len(analysisResults.items)
        /\ onScreenCount = Cardinality(GazeTrue)
        /\ offScreenCount >= 0

\* A recording of FRAME_COUNT frames answered with as many judgments as the
\* response may hold, some on screen and some off screen.
C12_Witness ==
    /\ ResultsView
    /\ Len(capturedFrames) = FRAME_COUNT
    /\ Len(analysisResults.items) = MaxResults
    /\ onScreenCount > 0 /\ offScreenCount > 0

-----------------------------------------------------------------------------
(* Properties of analyze *)

\* analyze returns in this step.
AnalysisEnds == analyzing # "idle" /\ analyzing' = "idle"

\* C14: an analysis ends either by storing a list in analysisResults or, on
\* any failure (extraction rejecting or giving no frame, a response that is
\* not OK, not parsable or not a list), with the Analysis Error notification
\* and analysisResults unchanged; in both cases loading is false again.
\* analysisResults never becomes anything but null or a list.
C14_FailuresNotifyAndKeepResults ==
    [][/\ AnalysisEnds =>
            /\ ~loading'
            /\ \/ IsArray(analysisResults') /\ analyzing = "fetching"
               \/ toast' = "Analysis Error" /\ analysisResults' = analysisResults
       /\ (analyzing = "extracting" /\ analyzing' # "extracting") =>
            \/ analyzing' = "fetching" /\ Len(submitted') > 0
            \/ AnalysisEnds /\ toast' = "Analysis Error"
       /\ analyzing # "idle" => loading
       /\ analysisResults' # analysisResults =>
            analysisResults' = JNull \/ IsArray(analysisResults')]_vars

\* A failed analysis of a short recording: notified, not loading, no results.
C14_Witness ==
    /\ toast = "Analysis Error"
    /\ ~loading /\ analyzing = "idle"
    /\ analysisResults = JNull
    /\ 0 < Len(capturedFrames) /\ Len(capturedFrames) < FRAME_COUNT

\* C15: analyze extracts from the video exactly when capturedFrames holds
\* fewer than FRAME_COUNT frames and there is a video URL, and otherwise posts
\* capturedFrames as they are; after an extraction the posted frames are the
\* extracted ones alone, and nothing is posted when there is none.
C15_ExtractionReplacesFrames ==
    [][/\ (analyzing = "idle" /\ analyzing' # "idle") =>
            /\ (analyzing' = "extracting") <=>
                  (Len(capturedFrames) < FRAME_COUNT /\ videoURL # 0)
            /\ analyzing' = "fetching" => submitted' = capturedFrames
       /\ (analyzing = "extracting" /\ analyzing' = "fetching") =>
            /\ Len(submitted') \in 1..FRAME_COUNT
            /\ \A i \in 1..Len(submitted') :
                  submitted'[i] = VideoFrame(extractingFrom, i)
       /\ (analyzing = "extracting" /\ AnalysisEnds) => submitted' = <<>>
       /\ analyzing' = "fetching" => Len(submitted') > 0]_vars

\* Extracted frames posted in place of the fewer frames sampled live.
C15_Witness ==
    /\ analyzing = "fetching"
    /\ 0 < Len(capturedFrames) /\ Len(capturedFrames) < FRAME_COUNT
    /\ Len(submitted) > Len(capturedFrames)
    /\ \A i \in 1..Len(submitted) : submitted[i].src = "video"

-----------------------------------------------------------------------------
(* The two proxy variants side by side *)

\* r went to the structured and q to the unstructured variant with the same
\* request, both are answered, and their model calls, if issued, had the
\* same outcome (both failed or both succeeded).
Paired(r, q) ==
    /\ variant[r] = "structured" /\ variant[q] = "unstructured"
    /\ Done(r) /\ Done(q)
    /\ body[r] = body[q]
    /\ CallFailed(r) <=> CallFailed(q)

CallSucceeded(r) == outcome[r] # NoOutcome /\ ~CallFailed(r)

-----------------------------------------------------------------------------
(* Properties of the page served by the unstructured variant *)

\* What a reader who parsed the model's text would get.
Spells(text) ==
    IF text = "[{frame:1,gaze:true,eyesClosed:false,confidence:90}]"
    THEN JList(GoodList(1))
    ELSE [t |-> "SyntaxError"]

\* The unstructured variant answered request r with a text that spells a list
\* of judgments.
AnsweredWithListText(r) ==
    /\ variant[r] = "unstructured"
    /\ pc[r] = "Succeeded"
    /\ IsArray(Spells(outcome[r].text))

\* C20: served by the unstructured variant with a text that spells a list of
\* judgments, analyze completes: the list check passes and analysisResults
\* becomes the judgments, without an error notification.
C20_ListTextCompletesAnalysis ==
    [][\A r \in Requests :
         (analyzing = "awaiting" /\ analyzing' = "idle" /\ Latest(r)
            /\ AnsweredWithListText(r)) =>
            /\ IsArray(analysisResults')
            /\ analysisResults' = Spells(outcome[r].text)
            /\ toast' # "Analysis Error"]_vars

\* Whatever the text, no response of the unstructured variant passes the list
\* check of the page.
UnstructuredNeverYieldsResults ==
    (\E r \in Requests : variant[r] = "unstructured") => ~IsArray(analysisResults)

\* The structured variant does.
StructuredYieldsResults ==
    /\ \E r \in Requests : variant[r] = "structured" /\ pc[r] = "Succeeded"
    /\ IsArray(analysisResults)
    /\ Len(analysisResults.items) > 0

====
